---- MODULE Spec2Model ----
(***************************************************************************)
(* Model of the Solarium customer app's state core:                        *)
(*   - the auth slice (reducers and async thunks),                          *)
(*   - the resilient API client (baseQuery) with its LogoutManager latch.   *)
(***************************************************************************)
EXTENDS Integers, Sequences, FiniteSets, TLC

\* ---------------------------------------------------------------------------
\* Bounds of the model
\* ---------------------------------------------------------------------------
NumReqs == 2
MaxTime == 2
MaxDays == 1
MaxAttempt == 5
MaxCalls == 3

\* ---------------------------------------------------------------------------
\* Value domains
\* ---------------------------------------------------------------------------
Undef == "undefined"   \* an absent string
None == <<>>            \* an absent object or number
Some(x) == <<x>>

Phones == {"1234567890", "9876543210"}
Names == {"Demo User", "Updated Name"}

LoginToken == "demo_token"
LoginRefresh == "demo_refresh"
RefreshedToken == "refreshed_token"
RefreshedRefresh == "refreshed_refresh"

NoRefreshMsg == "No refresh token available"
InvalidOtpMsg == "Invalid OTP. Please try again."
StorageErrMsg == "Failed to save auth_token to storage"
LoginFailedMsg == "Login failed"
RemoveErrMsg == "Failed to remove auth_token from storage"

Thunks == {"sendOtp", "loginWithOtp", "logoutUser", "refreshToken",
           "loginWithOtpEnhanced", "logoutUserEnhanced", "logoutThunk"}

VARIABLES
  auth,           \* the auth slice of the store
  thunk,          \* in-flight async thunks and the arguments they captured
  lastAction,     \* type of the last action the auth reducer handled
  now,            \* Date.now()
  req,            \* the baseQuery calls, one record per request slot
  logoutManager,  \* the module-level LogoutManager instance
  timers,         \* pending setTimeout callbacks of the LogoutManager
  uiLoading,      \* ui.isLoading
  online,         \* truthiness of navigator.onLine
  epLogouts,      \* logout actions the manager dispatched since its last reset
  epAuthFails,    \* 401/403 responses received since the last reset (capped)
  disk,           \* EncryptedStorage: key -> stored string, None when absent
  boot,           \* redux-persist lifecycle of this launch
  lastRehydrate,  \* what the last REHYDRATE read, passed on and produced
  cache,          \* the cache slice of the store
  apiSlices,      \* the RTK Query slices of the store, by reducerPath
  migration,      \* a state being taken through the migration table
  call,           \* the last storage-helper call and how it settled
  offline         \* the storeOfflineRequest calls and the order they began in

authVars == <<auth, thunk, lastAction, now>>
apiVars == <<req, logoutManager, timers, uiLoading, online, epLogouts, epAuthFails>>
sideVars ==
  <<disk, boot, lastRehydrate, cache, apiSlices, migration, call, offline>>
vars == <<auth, thunk, lastAction, now, req, logoutManager, timers, uiLoading,
          online, epLogouts, epAuthFails, disk, boot, lastRehydrate, cache,
          apiSlices, migration, call, offline>>

\* ---------------------------------------------------------------------------
\* Auth slice: state and reducers
\* ---------------------------------------------------------------------------
initialState ==
  [isLoggedIn |-> FALSE, isLoading |-> FALSE, isSendingOtp |-> FALSE,
   token |-> Undef, refreshToken |-> Undef, user |-> None,
   lastLoginTime |-> None, error |-> Undef]

DemoUser(phone) == Some([id |-> "user_1", phone |-> phone, name |-> "Demo User"])

authSetLoading(s, b) == [s EXCEPT !.isLoading = b]

clearError(s) == [s EXCEPT !.error = Undef]

\* p is a partial user: a function from some of the user's fields to values
updateUserProfile(s, p) ==
  IF s.user # None
    THEN [s EXCEPT !.user =
            Some([f \in DOMAIN s.user[1] |->
                    IF f \in DOMAIN p THEN p[f] ELSE s.user[1][f]])]
    ELSE s

loginRequest(s) == [s EXCEPT !.isLoading = TRUE, !.error = Undef]

loginSuccess(s, p, t) ==
  [s EXCEPT !.isLoggedIn = TRUE, !.isLoading = FALSE, !.token = p.token,
            !.refreshToken = p.refreshToken, !.user = p.user,
            !.lastLoginTime = Some(t), !.error = Undef]

loginFailure(s, msg) ==
  [s EXCEPT !.isLoggedIn = FALSE, !.isLoading = FALSE, !.token = Undef,
            !.refreshToken = Undef, !.user = None, !.error = msg]

logoutNoTime(s) ==
  [s EXCEPT !.isLoggedIn = FALSE, !.isLoading = FALSE, !.token = Undef,
            !.refreshToken = Undef, !.user = None, !.error = Undef]

logout(s) ==
  [s EXCEPT !.isLoggedIn = FALSE, !.isLoading = FALSE, !.token = Undef,
            !.refreshToken = Undef, !.user = None, !.lastLoginTime = None,
            !.error = Undef]

sendOtpPending(s) == [s EXCEPT !.isSendingOtp = TRUE, !.error = Undef]
sendOtpFulfilled(s) == [s EXCEPT !.isSendingOtp = FALSE, !.error = Undef]

loginWithOtpPending(s) == [s EXCEPT !.isLoading = TRUE, !.error = Undef]

\* the refreshToken assignment is commented out in the source: it keeps its value
loginWithOtpFulfilled(s, p, t) ==
  [s EXCEPT !.isLoading = FALSE, !.isLoggedIn = TRUE, !.token = p.token,
            !.user = p.user, !.lastLoginTime = Some(t), !.error = Undef]

loginWithOtpRejectedSilent(s, msg) ==
  [s EXCEPT !.isLoading = FALSE, !.isLoggedIn = FALSE, !.token = Undef,
            !.refreshToken = Undef, !.user = None]

loginWithOtpRejected(s, msg) ==
  [s EXCEPT !.isLoading = FALSE, !.isLoggedIn = FALSE, !.token = Undef,
            !.refreshToken = Undef, !.user = None, !.error = msg]

logoutUserPending(s) == [s EXCEPT !.isLoading = TRUE]

logoutUserFulfilled(s) ==
  [s EXCEPT !.isLoading = FALSE, !.isLoggedIn = FALSE, !.token = Undef,
            !.refreshToken = Undef, !.user = None, !.lastLoginTime = None,
            !.error = Undef]

\* store/authSlice: logoutThunk.rejected
logoutThunkRejected(s, msg) == [s EXCEPT !.isLoading = FALSE, !.error = msg]

refreshTokenPending(s) == [s EXCEPT !.isLoading = TRUE]

refreshTokenFulfilled(s, p) ==
  [s EXCEPT !.isLoading = FALSE, !.token = p.token,
            !.refreshToken = IF p.refreshToken # Undef
                               THEN p.refreshToken ELSE @,
            !.error = Undef]

refreshTokenRejected(s, msg) ==
  IF msg = NoRefreshMsg
    THEN [s EXCEPT !.isLoading = FALSE, !.isLoggedIn = FALSE, !.token = Undef,
                   !.refreshToken = Undef, !.user = None, !.error = msg]
    ELSE [s EXCEPT !.isLoading = FALSE, !.error = msg]

loginWithOtpEnhancedPending(s) == [s EXCEPT !.isLoading = TRUE, !.error = Undef]

loginWithOtpEnhancedFulfilled(s, p, t) ==
  [s EXCEPT !.isLoggedIn = TRUE, !.isLoading = FALSE, !.token = p.token,
            !.refreshToken = p.refreshToken, !.user = p.user,
            !.lastLoginTime = Some(t), !.error = Undef]

loginWithOtpEnhancedRejected(s, msg) ==
  [s EXCEPT !.isLoggedIn = FALSE, !.isLoading = FALSE, !.token = Undef,
            !.refreshToken = Undef, !.user = None, !.error = msg]

logoutUserEnhancedFulfilled(s) ==
  [s EXCEPT !.isLoggedIn = FALSE, !.isLoading = FALSE, !.token = Undef,
            !.refreshToken = Undef, !.user = None, !.lastLoginTime = None,
            !.error = Undef]


\* ---------------------------------------------------------------------------
\* Auth slice: dispatching the plain actions
\* ---------------------------------------------------------------------------
IdleThunk == [st |-> "idle", phone |-> Undef, otpOk |-> FALSE]

PartialUsers ==
  {[f \in {"name"} |-> n] : n \in Names} \cup
  {[f \in {"phone"} |-> ph] : ph \in Phones} \cup
  {[f \in {"name", "phone"} |-> IF f = "name" THEN "Updated Name" ELSE ph] :
     ph \in Phones}

Reduce(s, type) ==
  /\ auth' = s
  /\ lastAction' = type
  /\ UNCHANGED apiVars
  /\ UNCHANGED sideVars

DoSetLoading ==
  /\ \E b \in BOOLEAN : Reduce(authSetLoading(auth, b), "auth/setLoading")
  /\ UNCHANGED <<thunk, now>>

DoClearError ==
  /\ Reduce(clearError(auth), "auth/clearError")
  /\ UNCHANGED <<thunk, now>>

DoUpdateUserProfile ==
  /\ \E p \in PartialUsers :
       Reduce(updateUserProfile(auth, p), "auth/updateUserProfile")
  /\ UNCHANGED <<thunk, now>>

DoLoginRequest ==
  /\ Reduce(loginRequest(auth), "auth/loginRequest")
  /\ UNCHANGED <<thunk, now>>

DoLoginSuccess ==
  /\ \E ph \in Phones, rt \in {Undef, LoginRefresh} :
       Reduce(loginSuccess(auth, [token |-> LoginToken, refreshToken |-> rt,
                                  user |-> DemoUser(ph)], now),
              "auth/loginSuccess")
  /\ UNCHANGED <<thunk, now>>

DoLoginFailure ==
  /\ Reduce(loginFailure(auth, LoginFailedMsg), "auth/loginFailure")
  /\ UNCHANGED <<thunk, now>>

DoLogout ==
  /\ Reduce(logout(auth), "auth/logout")
  /\ UNCHANGED <<thunk, now>>

\* ---------------------------------------------------------------------------
\* Auth slice: async thunks (pending on dispatch, fulfilled/rejected later)
\* ---------------------------------------------------------------------------
Pending(t) == thunk[t].st = "pending"

SendOtpStart ==
  /\ ~Pending("sendOtp")
  /\ thunk' = [thunk EXCEPT !["sendOtp"].st = "pending"]
  /\ Reduce(sendOtpPending(auth), "auth/sendOtp/pending")
  /\ UNCHANGED now

SendOtpDone ==
  /\ Pending("sendOtp")
  /\ thunk' = [thunk EXCEPT !["sendOtp"] = IdleThunk]
  /\ Reduce(sendOtpFulfilled(auth), "auth/sendOtp/fulfilled")
  /\ UNCHANGED now

LoginWithOtpStart ==
  /\ ~Pending("loginWithOtp")
  /\ \E ph \in Phones, ok \in BOOLEAN :
       thunk' = [thunk EXCEPT !["loginWithOtp"] =
                   [st |-> "pending", phone |-> ph, otpOk |-> ok]]
  /\ Reduce(loginWithOtpPending(auth), "auth/loginWithOtp/pending")
  /\ UNCHANGED now

\* otp !== '123456' throws; a failing setStorageItem throws as well
LoginWithOtpDone ==
  /\ Pending("loginWithOtp")
  /\ LET a == thunk["loginWithOtp"] IN
       IF ~a.otpOk
         THEN Reduce(loginWithOtpRejected(auth, InvalidOtpMsg),
                     "auth/loginWithOtp/rejected")
         ELSE \E storageOk \in BOOLEAN :
                IF storageOk
                  THEN Reduce(loginWithOtpFulfilled(auth,
                                [token |-> LoginToken, user |-> DemoUser(a.phone)],
                                now),
                              "auth/loginWithOtp/fulfilled")
                  ELSE Reduce(loginWithOtpRejected(auth, StorageErrMsg),
                              "auth/loginWithOtp/rejected")
  /\ thunk' = [thunk EXCEPT !["loginWithOtp"] = IdleThunk]
  /\ UNCHANGED now

LogoutUserStart ==
  /\ ~Pending("logoutUser")
  /\ thunk' = [thunk EXCEPT !["logoutUser"].st = "pending"]
  /\ Reduce(logoutUserPending(auth), "auth/logout/pending")
  /\ UNCHANGED now

\* the payload creator catches storage failures and still returns true
LogoutUserDone ==
  /\ Pending("logoutUser")
  /\ thunk' = [thunk EXCEPT !["logoutUser"] = IdleThunk]
  /\ Reduce(logoutUserFulfilled(auth), "auth/logout/fulfilled")
  /\ UNCHANGED now

\* store/authSlice: logoutThunk has the pending and fulfilled reducers of
\* logoutUser, and its catch block rejects with the storage error's message
LogoutThunkStart ==
  /\ ~Pending("logoutThunk")
  /\ thunk' = [thunk EXCEPT !["logoutThunk"].st = "pending"]
  /\ Reduce(logoutUserPending(auth), "auth/logout/pending")
  /\ UNCHANGED now

LogoutThunkDone ==
  /\ Pending("logoutThunk")
  /\ thunk' = [thunk EXCEPT !["logoutThunk"] = IdleThunk]
  /\ \E storageOk \in BOOLEAN :
       IF storageOk
         THEN Reduce(logoutUserFulfilled(auth), "auth/logout/fulfilled")
         ELSE Reduce(logoutThunkRejected(auth, RemoveErrMsg),
                     "auth/logout/rejected")
  /\ UNCHANGED now

\* getState() is read when the payload creator starts; without a refresh
\* token it rejects before any timer or store call, in the same task
RefreshTokenStart ==
  /\ ~Pending("refreshToken")
  /\ IF auth.refreshToken = Undef
       THEN /\ Reduce(refreshTokenRejected(refreshTokenPending(auth), NoRefreshMsg),
                      "auth/refreshToken/rejected")
            /\ UNCHANGED thunk
       ELSE /\ Reduce(refreshTokenPending(auth), "auth/refreshToken/pending")
            /\ thunk' = [thunk EXCEPT !["refreshToken"].st = "pending"]
  /\ UNCHANGED now

RefreshTokenDone ==
  /\ Pending("refreshToken")
  /\ \E storageOk \in BOOLEAN :
       IF storageOk
         THEN Reduce(refreshTokenFulfilled(auth,
                       [token |-> RefreshedToken,
                        refreshToken |-> RefreshedRefresh]),
                     "auth/refreshToken/fulfilled")
         ELSE Reduce(refreshTokenRejected(auth, StorageErrMsg),
                     "auth/refreshToken/rejected")
  /\ thunk' = [thunk EXCEPT !["refreshToken"] = IdleThunk]
  /\ UNCHANGED now

LoginWithOtpEnhancedStart ==
  /\ ~Pending("loginWithOtpEnhanced")
  /\ \E ph \in Phones, ok \in BOOLEAN :
       thunk' = [thunk EXCEPT !["loginWithOtpEnhanced"] =
                   [st |-> "pending", phone |-> ph, otpOk |-> ok]]
  /\ Reduce(loginWithOtpEnhancedPending(auth), "auth/loginWithOtpEnhanced/pending")
  /\ UNCHANGED now

\* verifyOtp answers 401 for a wrong OTP; unwrap() throws the error object,
\* which has no message, so the payload is 'Login failed'
LoginWithOtpEnhancedDone ==
  /\ Pending("loginWithOtpEnhanced")
  /\ LET a == thunk["loginWithOtpEnhanced"] IN
       IF a.otpOk
         THEN Reduce(loginWithOtpEnhancedFulfilled(auth,
                       [token |-> LoginToken, refreshToken |-> LoginRefresh,
                        user |-> DemoUser(a.phone)], now),
                     "auth/loginWithOtpEnhanced/fulfilled")
         ELSE Reduce(loginWithOtpEnhancedRejected(auth, LoginFailedMsg),
                     "auth/loginWithOtpEnhanced/rejected")
  /\ thunk' = [thunk EXCEPT !["loginWithOtpEnhanced"] = IdleThunk]
  /\ UNCHANGED now

\* no reducer case handles logoutUserEnhanced.pending
LogoutUserEnhancedStart ==
  /\ ~Pending("logoutUserEnhanced")
  /\ thunk' = [thunk EXCEPT !["logoutUserEnhanced"].st = "pending"]
  /\ Reduce(auth, "auth/logoutUserEnhanced/pending")
  /\ UNCHANGED now

LogoutUserEnhancedDone ==
  /\ Pending("logoutUserEnhanced")
  /\ thunk' = [thunk EXCEPT !["logoutUserEnhanced"] = IdleThunk]
  /\ Reduce(logoutUserEnhancedFulfilled(auth), "auth/logoutUserEnhanced/fulfilled")
  /\ UNCHANGED now

Tick ==
  /\ now < MaxTime
  /\ now' = now + 1
  /\ UNCHANGED <<auth, thunk, lastAction>>
  /\ UNCHANGED apiVars
  /\ UNCHANGED sideVars

\* ---------------------------------------------------------------------------
\* API helpers (utils/apiHelpers)
\* ---------------------------------------------------------------------------
\* What one baseFetchQuery call can come back with: an HTTP status, one of
\* fetchBaseQuery's error kinds, or an exception
Statuses == {"200", "400", "401", "403", "404", "408", "429",
             "500", "502", "503", "504"}
Outcomes == Statuses \cup {"FETCH_ERROR", "TIMEOUT_ERROR", "THROW"}

isAuthError(e) == e = "401" \/ e = "403"

\* error.name and error.code are never set on a fetchBaseQuery error
isNetworkError(e) == e = "0" \/ ~online

retryableStatuses == {"408", "429", "500", "502", "503", "504"}

isRetryableErrorNoStatus(e) == isNetworkError(e)

isRetryableError(e) == isNetworkError(e) \/ e \in retryableStatuses

\* ---------------------------------------------------------------------------
\* LogoutManager
\* ---------------------------------------------------------------------------
IdleManager == [isLoggingOut |-> FALSE, logoutPromise |-> "null"]

isInProgress == logoutManager.isLoggingOut

EnterLogoutNoLatch(lm) == [lm EXCEPT !.logoutPromise = "pending"]

\* handleLogout past its guard: set the flag, create the promise
EnterLogout(lm) == [isLoggingOut |-> TRUE, logoutPromise |-> "pending"]

\* ---------------------------------------------------------------------------
\* baseQuery / baseQueryWithRetry
\* ---------------------------------------------------------------------------
Reqs == 1..NumReqs

maxRetries == 3

NoResult == [data |-> FALSE, error |-> Undef]

IdleReq ==
  [pc |-> "idle", attempt |-> 0, calls |-> 0, last |-> "none",
   prefixRet |-> TRUE, result |-> NoResult, background |-> FALSE,
   sawPendingLogout |-> FALSE, starts |-> 0, stops |-> 0,
   startToken |-> Undef, sameToken |-> TRUE, tokenAtAuthError |-> Undef]

\* the result object baseFetchQuery resolves to
FetchResult(o) ==
  IF o = "200" THEN [data |-> TRUE, error |-> Undef]
               ELSE [data |-> FALSE, error |-> o]

\* setLoading({isLoading: false}) unless the request is a background one
StopLoading(q) == IF q.background THEN uiLoading ELSE FALSE

StopsAlways(q) == 1

\* the setLoading({isLoading: false}) dispatches of one return path
Stops(q) == IF q.background THEN 0 ELSE 1

Stopped(q) == [q EXCEPT !.stops = @ + Stops(q)]

\* prepareHeaders: the token a baseFetchQuery call made now carries
CarriedToken == auth.token

Min(a, b) == IF a < b THEN a ELSE b

Start(r, bg) ==
  /\ req[r].pc \in {"idle", "done"}
  /\ req' = [req EXCEPT ![r] = [IdleReq EXCEPT !.pc = "fetch", !.calls = 1,
                                               !.background = bg,
                                               !.starts = IF bg THEN 0 ELSE 1,
                                               !.startToken = CarriedToken]]
  /\ uiLoading' = IF bg THEN uiLoading ELSE TRUE
  /\ UNCHANGED <<logoutManager, timers, online, epLogouts, epAuthFails>>
  /\ UNCHANGED authVars
  /\ UNCHANGED sideVars

ShouldRetryOneMore(e, attempt) == isRetryableError(e) /\ attempt <= maxRetries

ShouldRetry(e, attempt) == isRetryableError(e) /\ attempt < maxRetries

CaughtRethrow(q) == [q EXCEPT !.pc = "rejected"]

\* the catch block: a generic FETCH_ERROR result
Caught(q) ==
  [q EXCEPT !.pc = "done", !.result = [data |-> FALSE, error |-> "FETCH_ERROR"]]

\* One baseFetchQuery call of request r comes back with outcome o, and the
\* loop body runs up to its next await or return
Respond(r, o) ==
  /\ req[r].pc = "fetch"
  /\ LET q == [req[r] EXCEPT
                 !.last = o,
                 !.prefixRet = (req[r].last = "none" \/
                                (req[r].prefixRet /\ req[r].last \in retryableStatuses)),
                 !.sawPendingLogout = (isAuthError(o) /\ logoutManager.isLoggingOut
                                       /\ timers.logout > 0),
                 !.tokenAtAuthError = IF isAuthError(o) THEN auth.token ELSE @]
         res == FetchResult(o)
     IN
     /\ epAuthFails' = IF isAuthError(o) THEN Min(epAuthFails + 1, NumReqs)
                                         ELSE epAuthFails
     /\ IF o = "THROW"
          THEN /\ req' = [req EXCEPT ![r] = Stopped(Caught(q))]
               /\ uiLoading' = StopLoading(q)
               /\ UNCHANGED <<logoutManager, timers>>
        ELSE IF res.error = Undef
          THEN /\ req' = [req EXCEPT ![r] =
                            Stopped([q EXCEPT !.pc = "done", !.result = res])]
               /\ uiLoading' = StopLoading(q)
               /\ UNCHANGED <<logoutManager, timers>>
        ELSE IF isAuthError(res.error) /\ ~isInProgress
          THEN \* handleLogout
               IF logoutManager.isLoggingOut
                 THEN /\ req' = [req EXCEPT ![r] =
                            IF logoutManager.logoutPromise = "pending"
                              THEN [q EXCEPT !.pc = "awaitShared", !.result = res]
                              ELSE Stopped([q EXCEPT !.pc = "done",
                                                     !.result = res])]
                      /\ uiLoading' = IF logoutManager.logoutPromise = "pending"
                                        THEN uiLoading ELSE StopLoading(q)
                      /\ UNCHANGED <<logoutManager, timers>>
                 ELSE /\ logoutManager' = EnterLogout(logoutManager)
                      /\ timers' = [timers EXCEPT !.logout = @ + 1]
                      /\ req' = [req EXCEPT ![r] =
                                   [q EXCEPT !.pc = "awaitLogout", !.result = res]]
                      /\ UNCHANGED uiLoading
        ELSE IF ShouldRetry(res.error, q.attempt)
          THEN /\ req' = [req EXCEPT ![r] = [q EXCEPT !.pc = "backoff"]]
               /\ UNCHANGED <<logoutManager, timers, uiLoading>>
          ELSE /\ req' = [req EXCEPT ![r] =
                            Stopped([q EXCEPT !.pc = "done", !.result = res])]
               /\ uiLoading' = StopLoading(q)
               /\ UNCHANGED <<logoutManager, timers>>
  /\ UNCHANGED <<online, epLogouts>>
  /\ UNCHANGED authVars
  /\ UNCHANGED sideVars

\* The backoff delay elapsed: attempt++ and continue.  The while condition is
\* evaluated again; past it the function falls out of the loop
Retry(r) ==
  /\ req[r].pc = "backoff"
  /\ IF req[r].attempt + 1 <= maxRetries
       THEN /\ req' = [req EXCEPT ![r].pc = "fetch", ![r].attempt = @ + 1,
                                  ![r].calls = @ + 1,
                                  ![r].sameToken =
                                    @ /\ CarriedToken = req[r].startToken]
            /\ UNCHANGED uiLoading
       ELSE /\ req' = [req EXCEPT ![r] =
                         Stopped([req[r] EXCEPT
                                    !.pc = "done", !.attempt = @ + 1,
                                    !.result = [data |-> FALSE,
                                                error |-> "FETCH_ERROR"]])]
            /\ uiLoading' = StopLoading(req[r])
  /\ UNCHANGED <<logoutManager, timers, online, epLogouts, epAuthFails>>
  /\ UNCHANGED authVars
  /\ UNCHANGED sideVars

Waiters == {r \in Reqs : req[r].pc \in {"awaitLogout", "awaitShared"}}

\* The 100 ms timer: dispatch(logout()) and resolve().  The requests awaiting
\* the promise resume in the microtasks that follow: the first caller's finally
\* block schedules the reset, and each returns its auth error
LogoutTimerFires ==
  /\ timers.logout > 0
  /\ auth' = logout(auth)
  /\ lastAction' = "auth/logout"
  /\ logoutManager' = [logoutManager EXCEPT !.logoutPromise = "resolved"]
  /\ timers' = [logout |-> timers.logout - 1,
                reset |-> timers.reset +
                          Cardinality({r \in Reqs : req[r].pc = "awaitLogout"})]
  /\ req' = [r \in Reqs |->
               IF r \in Waiters
                 THEN Stopped([req[r] EXCEPT !.pc = "done",
                                             !.sawPendingLogout = FALSE])
                 ELSE [req[r] EXCEPT !.sawPendingLogout = FALSE]]
  /\ uiLoading' = IF \E r \in Waiters : ~req[r].background THEN FALSE ELSE uiLoading
  /\ epLogouts' = Min(epLogouts + 1, 2)
  /\ UNCHANGED <<thunk, now, online, epAuthFails>>
  /\ UNCHANGED sideVars

\* The 1000 ms timer of the finally block
ResetTimerFires ==
  /\ timers.reset > 0
  /\ logoutManager' = IdleManager
  /\ timers' = [timers EXCEPT !.reset = @ - 1]
  /\ epLogouts' = 0
  /\ epAuthFails' = 0
  /\ UNCHANGED <<req, uiLoading, online>>
  /\ UNCHANGED authVars
  /\ UNCHANGED sideVars

\* the device goes offline or comes back
ToggleOnline ==
  /\ online' = ~online
  /\ UNCHANGED <<req, logoutManager, timers, uiLoading, epLogouts, epAuthFails>>
  /\ UNCHANGED authVars
  /\ UNCHANGED sideVars

\* ---------------------------------------------------------------------------
\* JSON values and the encrypted store
\* ---------------------------------------------------------------------------
\* A JavaScript object is a function from its own property names to values; a
\* primitive standing where an object is expected is the record [prim |-> v].
\* A string on disk is [json |-> v], the JSON text of v, or [text |-> t], a
\* text that is not JSON.
IsPrimitive(v) == "prim" \in DOMAIN v

Falsy(v) == IsPrimitive(v) /\ v.prim \in {"null", "false", "0", "empty"}

\* typeof v = 'object'
TypeofObject(v) == IsPrimitive(v) => v.prim = "null"

\* JSON.stringify: the properties whose value is undefined are left out
Stringify(o) ==
  LET IsUndefined(f) ==
        IF f \in {"user", "lastLoginTime"} THEN o[f] = None
        ELSE IF f \in {"token", "refreshToken", "error"} THEN o[f] = Undef
        ELSE FALSE
  IN [json |-> IF IsPrimitive(o) THEN o
               ELSE [f \in {g \in DOMAIN o : ~IsUndefined(g)} |-> o[f]]]

CanParse(str) == "json" \in DOMAIN str

\* JSON.parse of a text CanParse accepts
Parse(str) == str.json

PersistKey == "persist:root"
ApiCacheKeys == {"api_cache_services"}
StorageItemKeys == {"user_data"}

\* ---------------------------------------------------------------------------
\* Cache slice and RTK Query slices
\* ---------------------------------------------------------------------------
cacheInitialState ==
  [lastSyncTime |-> None, cachedData |-> {}, syncInProgress |-> FALSE]

setCachedData(c, k) == [c EXCEPT !.cachedData = @ \cup {k}]

ApiPaths == {"authApi", "servicesApi", "leadsApi"}

apiInitialState == [p \in ApiPaths |-> [queries |-> {}]]

\* ---------------------------------------------------------------------------
\* Persistence configuration (store/persistConfig, store/index)
\* ---------------------------------------------------------------------------
maxAge == 24 * 60 * 60 * 1000

persistVersion == 1

whitelist == {"auth"}

blacklist == {"ui"} \cup ApiPaths

HasUser(o) == "user" \in DOMAIN o /\ o.user # None

\* authTransform.in: drop user.password before the slice is written
authTransformIn(o) ==
  IF ~IsPrimitive(o) /\ HasUser(o) /\ "password" \in DOMAIN o.user[1]
    THEN [o EXCEPT !.user =
            Some([f \in DOMAIN o.user[1] \ {"password"} |-> o.user[1][f]])]
    ELSE o

LoggedOutShape(o) ==
  [f \in DOMAIN o \cup {"isLoggedIn", "token", "refreshToken", "user",
                         "lastLoginTime"} |->
     CASE f = "isLoggedIn" -> FALSE
       [] f \in {"token", "refreshToken"} -> Undef
       [] f \in {"user", "lastLoginTime"} -> None
       [] OTHER -> o[f]]

authTransformOutNoExpiry(o, t) == o

\* authTransform.out at time t: a session older than maxAge is dropped
authTransformOut(o, t) ==
  IF /\ "lastLoginTime" \in DOMAIN o
     /\ o.lastLoginTime # None
     /\ o.lastLoginTime[1] # 0
     /\ t - o.lastLoginTime[1] > maxAge
    THEN LoggedOutShape(o)
    ELSE o

passBlacklistOnly(key) == key \notin blacklist

\* createPersistoid's filter: both lists apply, _persist always passes the
\* whitelist
passWhitelistBlacklist(key) ==
  /\ ~(key \notin whitelist /\ key # "_persist")
  /\ key \notin blacklist

\* the root state as the persisted reducer sees it
RootState ==
  [auth |-> auth, ui |-> [isLoading |-> uiLoading], cache |-> cache,
   authApi |-> apiSlices["authApi"], servicesApi |-> apiSlices["servicesApi"],
   leadsApi |-> apiSlices["leadsApi"],
   _persist |-> [version |-> persistVersion, rehydrated |-> boot = "rehydrated"]]

\* what the persistoid writes for root state st: every key that passes the
\* filter, run through the inbound transform and serialized, then the whole
\* serialized again
PersistedEnvelope(st) ==
  Stringify([k \in {j \in DOMAIN st : passWhitelistBlacklist(j)} |->
               Stringify(authTransformIn(st[k]))])

\* ---------------------------------------------------------------------------
\* Rehydration (redux-persist driven by the configuration above)
\* ---------------------------------------------------------------------------
\* getStoredState at time t: None when nothing usable is stored (no entry, or
\* a text that fails to parse), else Some(state) with every key deserialized
\* and run through the outbound transform.  The transform is a plain object,
\* so redux-persist applies it to every key of the envelope
getStoredState(t) ==
  LET serialized == disk[PersistKey] IN
  IF serialized = None \/ ~CanParse(serialized[1]) THEN None
  ELSE LET rawState == Parse(serialized[1]) IN
       IF IsPrimitive(rawState)
         THEN IF rawState.prim = "null" THEN None ELSE Some(<<>>)
       ELSE IF \E k \in DOMAIN rawState : ~CanParse(rawState[k]) THEN None
       ELSE Some([k \in DOMAIN rawState |->
                    authTransformOut(Parse(rawState[k]), t)])

\* a property read that is truthy: present and not the empty string
Truthy(o, f) == f \in DOMAIN o /\ o[f] # ""

validatePersistedState(state) ==
  IF IsPrimitive(state) THEN FALSE
  ELSE IF "auth" \in DOMAIN state /\ ~Falsy(state.auth)
          /\ ~TypeofObject(state.auth) THEN FALSE
  ELSE IF "auth" \in DOMAIN state /\ HasUser(state.auth)
    THEN Truthy(state.auth.user[1], "id") /\ Truthy(state.auth.user[1], "phone")
    ELSE TRUE

\* invalid: originalState; else {...originalState, ...inboundState}
stateReconciler(inboundState, originalState) ==
  IF ~validatePersistedState(inboundState)
    THEN originalState
    ELSE [k \in DOMAIN originalState \cup DOMAIN inboundState |->
            IF k \in DOMAIN inboundState THEN inboundState[k]
                                         ELSE originalState[k]]

\* the slice as the reducers read it: a property the object lacks reads as
\* undefined
Revive(o) ==
  IF IsPrimitive(o) THEN o
  ELSE [f \in DOMAIN initialState \cup DOMAIN o |->
          IF f \in DOMAIN o THEN o[f] ELSE initialState[f]]

\* persistReducer on REHYDRATE.  The payload is undefined when nothing usable
\* is stored or when the 10 s timeout fires before the store answers
Rehydrate ==
  /\ boot = "cold"
  /\ \E timedOut \in BOOLEAN :
       LET inbound == IF timedOut THEN None ELSE getStoredState(now)
           reconciled == IF inbound = None THEN RootState
                         ELSE stateReconciler(inbound[1], RootState)
           newState == [k \in DOMAIN reconciled |->
                          IF k = "_persist"
                            THEN [version |-> persistVersion, rehydrated |-> TRUE]
                            ELSE reconciled[k]]
       IN /\ auth' = Revive(newState.auth)
          /\ cache' = newState.cache
          /\ uiLoading' = newState.ui.isLoading
          /\ apiSlices' = [p \in ApiPaths |-> newState[p]]
          /\ lastRehydrate' =
               Some([at |-> now, raw |-> disk[PersistKey], inbound |-> inbound,
                     original |-> RootState,
                     accepted |-> inbound # None
                                  /\ validatePersistedState(inbound[1]),
                     state |-> newState])
  /\ boot' = "rehydrated"
  /\ lastAction' = "persist/REHYDRATE"
  /\ UNCHANGED <<thunk, now, disk, migration, call, offline>>
  /\ UNCHANGED <<req, logoutManager, timers, online, epLogouts, epAuthFails>>

\* The persistoid's write.  It sees every state the reducer returns once
\* rehydrated and writes the latest one
PersistFlush ==
  /\ boot = "rehydrated"
  /\ disk[PersistKey] # Some(PersistedEnvelope(RootState))
  /\ disk' = [disk EXCEPT ![PersistKey] = Some(PersistedEnvelope(RootState))]
  /\ UNCHANGED <<boot, lastRehydrate, cache, apiSlices, migration, call, offline>>
  /\ UNCHANGED authVars
  /\ UNCHANGED apiVars

\* The app process ends and is launched again: memory starts over, the
\* encrypted store and the clock carry on
Relaunch ==
  /\ boot = "rehydrated"
  /\ auth' = initialState
  /\ thunk' = [t \in Thunks |-> IdleThunk]
  /\ lastAction' = "@@INIT"
  /\ uiLoading' = FALSE
  /\ cache' = cacheInitialState
  /\ apiSlices' = apiInitialState
  /\ boot' = "cold"
  /\ lastRehydrate' = None
  /\ UNCHANGED <<now, disk, migration, call, offline>>
  /\ UNCHANGED <<req, logoutManager, timers, online, epLogouts, epAuthFails>>

\* What another build of the app, or a damaged store, can leave under the
\* persist key before a launch
LegacySession(u) ==
  [isLoggedIn |-> TRUE, isLoading |-> FALSE, isSendingOtp |-> FALSE,
   token |-> LoginToken, refreshToken |-> LoginRefresh, user |-> Some(u),
   lastLoginTime |-> Some(1), error |-> Undef]

LegacyEnvelopes ==
  { [text |-> "not json"] } \cup
  { Stringify([auth |-> Stringify(a),
               _persist |-> Stringify([version |-> v, rehydrated |-> TRUE])]) :
      a \in { [prim |-> "false"], [prim |-> "0"], [prim |-> "text"],
              LegacySession([id |-> "user_1", phone |-> "1234567890",
                             name |-> "Demo User"]),
              LegacySession([phone |-> "1234567890", name |-> "Demo User"]),
              LegacySession([id |-> "user_1", phone |-> "",
                             name |-> "Demo User"]),
              LegacySession([id |-> "", phone |-> "1234567890",
                             name |-> "Demo User"]) },
      v \in {0, persistVersion} } \cup
  { Stringify([cache |-> Stringify(setCachedData(cacheInitialState, "services")),
               _persist |-> Stringify([version |-> 0, rehydrated |-> TRUE])]) }

LegacyInstall(e) ==
  /\ boot = "cold"
  /\ disk' = [disk EXCEPT ![PersistKey] = Some(e)]
  /\ UNCHANGED <<boot, lastRehydrate, cache, apiSlices, migration, call, offline>>
  /\ UNCHANGED authVars
  /\ UNCHANGED apiVars

\* the app stays closed, or open, for a day
DayPasses ==
  /\ now + maxAge <= MaxDays * maxAge + MaxTime
  /\ now' = now + maxAge
  /\ UNCHANGED <<auth, thunk, lastAction>>
  /\ UNCHANGED apiVars
  /\ UNCHANGED sideVars

\* dispatches to the slices that are not persisted
SetCachedData(k) ==
  /\ cache' = setCachedData(cache, k)
  /\ UNCHANGED <<disk, boot, lastRehydrate, apiSlices, migration, call, offline>>
  /\ UNCHANGED authVars
  /\ UNCHANGED apiVars

\* a query result is cached by an RTK Query slice, or the slice is reset
ApiQueryCached(p) ==
  /\ apiSlices' = [apiSlices EXCEPT ![p].queries =
                     IF @ = {} THEN {"query"} ELSE {}]
  /\ UNCHANGED <<disk, boot, lastRehydrate, cache, migration, call, offline>>
  /\ UNCHANGED authVars
  /\ UNCHANGED apiVars

uiSetLoading(b) ==
  /\ uiLoading' = b
  /\ UNCHANGED <<req, logoutManager, timers, online, epLogouts, epAuthFails>>
  /\ UNCHANGED authVars
  /\ UNCHANGED sideVars

\* ---------------------------------------------------------------------------
\* Migrations (store/migrations)
\* ---------------------------------------------------------------------------
PersistMeta(state) == IF "_persist" \in DOMAIN state THEN state._persist ELSE <<>>

\* {...state._persist, version: v}
WithVersion(meta, v) ==
  [f \in DOMAIN meta \cup {"version"} |-> IF f = "version" THEN v ELSE meta[f]]

migration0to1(state) ==
  [k \in DOMAIN state \cup {"_persist"} |->
     IF k = "_persist" THEN WithVersion(PersistMeta(state), 1) ELSE state[k]]

\* typedState.auth.phone && !typedState.auth.user?.phone
PhoneToMove(state) ==
  /\ "auth" \in DOMAIN state
  /\ ~IsPrimitive(state.auth)
  /\ Truthy(state.auth, "phone")
  /\ ~(HasUser(state.auth) /\ Truthy(state.auth.user[1], "phone"))

\* the auth object once migration1to2 has assigned user and deleted phone
MovedAuth(a) ==
  LET u == IF HasUser(a) THEN a.user[1] ELSE <<>> IN
  [f \in (DOMAIN a \ {"phone"}) \cup {"user"} |->
     IF f = "user"
       THEN Some([g \in DOMAIN u \cup {"phone"} |->
                    IF g = "phone" THEN a.phone ELSE u[g]])
       ELSE a[f]]

\* the state object handed to migration1to2 as the call leaves it: the nested
\* auth object is changed in place
migration1to2Arg(state) ==
  IF PhoneToMove(state)
    THEN [state EXCEPT !.auth = MovedAuth(state.auth)]
    ELSE state

migration1to2(state) ==
  LET typedState == migration1to2Arg(state) IN
  [k \in DOMAIN typedState \cup {"_persist"} |->
     IF k = "_persist" THEN WithVersion(PersistMeta(state), 2)
                       ELSE typedState[k]]

migrationKeys == {0, 1}

migrations(k, state) ==
  IF k = 0 THEN migration0to1(state) ELSE migration1to2(state)

getCurrentVersion ==
  (CHOOSE m \in migrationKeys : \A j \in migrationKeys : j <= m) + 1

\* States of schema version 0: the session may carry a top-level phone, a
\* nested user, both or neither
V0Users ==
  { None, Some([id |-> "user_1", name |-> "Demo User"]) } \cup
  { Some([id |-> "user_1", name |-> "Demo User", phone |-> ph]) : ph \in Phones }

V0Meta == [version |-> 0, rehydrated |-> TRUE]

V0States ==
  { [_persist |-> V0Meta] } \cup
  { [auth |-> [isLoggedIn |-> b, user |-> u], _persist |-> V0Meta] :
      b \in BOOLEAN, u \in V0Users } \cup
  { [auth |-> [isLoggedIn |-> b, user |-> u, phone |-> ph], _persist |-> V0Meta] :
      b \in BOOLEAN, u \in V0Users, ph \in Phones }

\* a version-0 state is picked up for migration
LoadV0(s) ==
  /\ migration = None
  /\ migration' = Some([k |-> 0, input |-> s, arg |-> s, state |-> s])
  /\ UNCHANGED <<disk, boot, lastRehydrate, cache, apiSlices, call, offline>>
  /\ UNCHANGED authVars
  /\ UNCHANGED apiVars

\* the next function of the table, in increasing key order, is applied to the
\* state the previous one returned
MigrateNext ==
  /\ migration # None
  /\ migration[1].k \in migrationKeys
  /\ LET m == migration[1] IN
     migration' = Some([k |-> m.k + 1, input |-> m.input,
                        arg |-> IF m.k = 1 THEN migration1to2Arg(m.state)
                                           ELSE m.state,
                        state |-> migrations(m.k, m.state)])
  /\ UNCHANGED <<disk, boot, lastRehydrate, cache, apiSlices, call, offline>>
  /\ UNCHANGED authVars
  /\ UNCHANGED apiVars

MigrationDone ==
  /\ migration # None
  /\ migration[1].k \notin migrationKeys
  /\ migration' = None
  /\ UNCHANGED <<disk, boot, lastRehydrate, cache, apiSlices, call, offline>>
  /\ UNCHANGED authVars
  /\ UNCHANGED apiVars

\* ---------------------------------------------------------------------------
\* Storage helpers and the TTL cache (utils/storageHelpers)
\* ---------------------------------------------------------------------------
\* Each helper call is awaited by its caller.  `call` keeps the last call:
\* its arguments, what was stored under the key when it began, whether the
\* encrypted store failed during it, how it settled and what it returned
\* (None is null).
TtlArgs == {None, Some(0), Some(1)}

Settled(op, key, args, fault, outcome, value) ==
  Some([op |-> op, key |-> key, args |-> args, seen |-> disk[key], at |-> now,
        fault |-> fault, outcome |-> outcome, value |-> value])

setStorageItemSwallowed(ok) == "resolved"

\* how setStorageItem and removeStorageItem settle, given whether the store
\* operation succeeded
WriteOutcome(ok) == IF ok THEN "resolved" ELSE "rejected"

\* what getStorageItem returns for key when the store read succeeds or fails
getStorageItem(key, ok) ==
  IF ~ok \/ disk[key] = None \/ ~CanParse(disk[key][1])
    THEN None
    ELSE Some(Parse(disk[key][1]))

SetStorageItem(key, value, ok) ==
  /\ disk' = IF ok THEN [disk EXCEPT ![key] = Some(Stringify(value))] ELSE disk
  /\ call' = Settled("setStorageItem", key, [value |-> value], ~ok,
                     WriteOutcome(ok), None)
  /\ UNCHANGED <<boot, lastRehydrate, cache, apiSlices, migration, offline>>
  /\ UNCHANGED authVars
  /\ UNCHANGED apiVars

GetStorageItem(key, ok) ==
  /\ call' = Settled("getStorageItem", key, <<>>, ~ok, "resolved",
                     getStorageItem(key, ok))
  /\ UNCHANGED disk
  /\ UNCHANGED <<boot, lastRehydrate, cache, apiSlices, migration, offline>>
  /\ UNCHANGED authVars
  /\ UNCHANGED apiVars

RemoveStorageItem(key, ok) ==
  /\ disk' = IF ok THEN [disk EXCEPT ![key] = None] ELSE disk
  /\ call' = Settled("removeStorageItem", key, <<>>, ~ok, WriteOutcome(ok), None)
  /\ UNCHANGED <<boot, lastRehydrate, cache, apiSlices, migration, offline>>
  /\ UNCHANGED authVars
  /\ UNCHANGED apiVars

defaultTtl == 5 * 60 * 1000

\* ttl || 5 * 60 * 1000
StoredTtl(ttl) == IF ttl = None \/ ttl[1] = 0 THEN defaultTtl ELSE ttl[1]

\* setApiCache: a failed write is caught and logged, the call still resolves
SetApiCache(key, data, ttl, ok) ==
  /\ disk' = IF ok
               THEN [disk EXCEPT ![key] =
                       Some(Stringify([data |-> data, timestamp |-> now,
                                       ttl |-> StoredTtl(ttl)]))]
               ELSE disk
  /\ call' = Settled("setApiCache", key, [data |-> data, ttl |-> ttl], ~ok,
                     "resolved", None)
  /\ UNCHANGED <<boot, lastRehydrate, cache, apiSlices, migration, offline>>
  /\ UNCHANGED authVars
  /\ UNCHANGED apiVars

\* getApiCache: a miss, an expired entry (removed; a failed removal is caught)
\* or a hit
GetApiCache(key, readOk, removeOk) ==
  LET got == getStorageItem(key, readOk) IN
  /\ IF got = None
       THEN /\ call' = Settled("getApiCache", key, <<>>, ~readOk, "resolved", None)
            /\ UNCHANGED disk
     ELSE IF now - got[1].timestamp > got[1].ttl
       THEN /\ call' = Settled("getApiCache", key, <<>>, ~removeOk, "resolved",
                               None)
            /\ disk' = IF removeOk THEN [disk EXCEPT ![key] = None] ELSE disk
       ELSE /\ call' = Settled("getApiCache", key, <<>>, FALSE, "resolved",
                               Some(got[1].data))
            /\ UNCHANGED disk
  /\ UNCHANGED <<boot, lastRehydrate, cache, apiSlices, migration, offline>>
  /\ UNCHANGED authVars
  /\ UNCHANGED apiVars

\* a text that is not JSON ends up under a key (a damaged store)
CorruptEntry(key) ==
  /\ disk[key] # Some([text |-> "invalid-json"])
  /\ disk' = [disk EXCEPT ![key] = Some([text |-> "invalid-json"])]
  /\ UNCHANGED <<call, boot, lastRehydrate, cache, apiSlices, migration, offline>>
  /\ UNCHANGED authVars
  /\ UNCHANGED apiVars

\* ---------------------------------------------------------------------------
\* Offline request queue (utils/storageHelpers)
\* ---------------------------------------------------------------------------
\* Call c passes request c.  An array is stored as the object [array |-> seq].
OfflineQueueKey == "api_offline_queue"

QueueUnshift(queue, request) == <<request>> \o queue

\* queue.push(request)
QueuePush(queue, request) == Append(queue, request)

\* storeOfflineRequest is called and its getStorageItem resolves: the queue
\* read, or [] when there is none or the read failed, with the request pushed
StoreOfflineRead(c, ok) ==
  /\ offline.calls[c].pc = "idle"
  /\ LET got == getStorageItem(OfflineQueueKey, ok)
         queue == IF got = None THEN <<>> ELSE got[1].array
         inFlight == {d \in 1..MaxCalls : offline.calls[d].pc = "writing"}
     IN offline' =
          [calls |-> [d \in 1..MaxCalls |->
                        IF d = c
                          THEN [pc |-> "writing",
                                queue |-> QueuePush(queue, c),
                                fault |-> ~ok,
                                overlapped |-> inFlight # {}]
                        ELSE IF d \in inFlight
                          THEN [offline.calls[d] EXCEPT !.overlapped = TRUE]
                        ELSE offline.calls[d]],
           begun |-> Append(offline.begun, c)]
  /\ UNCHANGED <<disk, boot, lastRehydrate, cache, apiSlices, migration, call>>
  /\ UNCHANGED authVars
  /\ UNCHANGED apiVars

\* its setStorageItem settles; a failure is caught and logged
StoreOfflineWrite(c, ok) ==
  /\ offline.calls[c].pc = "writing"
  /\ disk' = IF ok
               THEN [disk EXCEPT ![OfflineQueueKey] =
                       Some(Stringify([array |-> offline.calls[c].queue]))]
               ELSE disk
  /\ offline' = [offline EXCEPT !.calls[c].pc = "done",
                                !.calls[c].fault = @ \/ ~ok]
  /\ UNCHANGED <<boot, lastRehydrate, cache, apiSlices, migration, call>>
  /\ UNCHANGED authVars
  /\ UNCHANGED apiVars

\* ---------------------------------------------------------------------------
\* Retry delay (utils/apiHelpers)
\* ---------------------------------------------------------------------------
\* the default of the baseDelay parameter, the one baseQuery calls with
baseDelay == 1000

calculateRetryDelayUncapped(attempt, base, jitter) == base * 2 ^ attempt + jitter

\* jitter is Math.random() * 1000, in whole milliseconds
calculateRetryDelay(attempt, base, jitter) ==
  Min(base * 2 ^ attempt + jitter, 30000)

\* One call; `call` keeps it together with the call before it
CalculateRetryDelay(attempt, jitter) ==
  /\ call' = Some([op |-> "calculateRetryDelay", attempt |-> attempt,
                   jitter |-> jitter,
                   exponentialDelay |-> baseDelay * 2 ^ attempt,
                   value |-> calculateRetryDelay(attempt, baseDelay, jitter),
                   prev |-> IF call = None THEN None
                            ELSE Some([attempt |-> call[1].attempt,
                                       exponentialDelay |->
                                         call[1].exponentialDelay,
                                       value |-> call[1].value])])
  /\ UNCHANGED <<disk, boot, lastRehydrate, cache, apiSlices, migration, offline>>
  /\ UNCHANGED authVars
  /\ UNCHANGED apiVars

\* ---------------------------------------------------------------------------
\* Specifications
\* ---------------------------------------------------------------------------
Init ==
  /\ auth = initialState
  /\ thunk = [t \in Thunks |-> IdleThunk]
  /\ lastAction = "@@INIT"
  /\ now = 1
  /\ req = [r \in Reqs |-> IdleReq]
  /\ logoutManager = IdleManager
  /\ timers = [logout |-> 0, reset |-> 0]
  /\ uiLoading = FALSE
  /\ online \in BOOLEAN
  /\ epLogouts = 0
  /\ epAuthFails = 0
  /\ disk = [k \in {PersistKey, OfflineQueueKey} \cup ApiCacheKeys
                     \cup StorageItemKeys |-> None]
  /\ boot = "cold"
  /\ lastRehydrate = None
  /\ cache = cacheInitialState
  /\ apiSlices = apiInitialState
  /\ migration = None
  /\ call = None
  /\ offline = [calls |-> [c \in 1..MaxCalls |->
                            [pc |-> "idle", queue |-> <<>>, fault |-> FALSE,
                             overlapped |-> FALSE]],
                begun |-> <<>>]

\* Concurrent requests through the client, answered by success or by an
\* authentication failure
ApiOutcomes == {"200", "401", "403"}

ApiStart == \E r \in Reqs, bg \in BOOLEAN : Start(r, bg)
ApiRespond == \E r \in Reqs, o \in ApiOutcomes : Respond(r, o)
ApiRetry == \E r \in Reqs : Retry(r)

Next ==
  \/ ApiStart
  \/ ApiRespond
  \/ ApiRetry
  \/ LogoutTimerFires
  \/ ResetTimerFires
  \/ ToggleOnline

Spec == Init /\ [][Next]_vars

\* One request at a time, every outcome of the transport
OneStart == \E bg \in BOOLEAN : Start(1, bg)
OneRespond == \E o \in Outcomes : Respond(1, o)
OneRetry == Retry(1)

NextRetry ==
  \/ OneStart
  \/ OneRespond
  \/ OneRetry
  \/ LogoutTimerFires
  \/ ResetTimerFires
  \/ ToggleOnline

SpecRetry == Init /\ [][NextRetry]_vars

\* One request while the session changes: login, token refresh, logout
SpecToken ==
  Init /\ [][\/ OneStart
             \/ \E o \in {"200", "401", "500"} : Respond(1, o)
             \/ OneRetry
             \/ LogoutTimerFires
             \/ ResetTimerFires
             \/ DoLoginSuccess
             \/ DoLogout
             \/ RefreshTokenStart
             \/ RefreshTokenDone]_vars

\* The auth slice under every interleaving of actions and thunk completions
NextAuth ==
  \/ DoSetLoading
  \/ DoClearError
  \/ DoUpdateUserProfile
  \/ DoLoginRequest
  \/ DoLoginSuccess
  \/ DoLoginFailure
  \/ DoLogout
  \/ SendOtpStart
  \/ SendOtpDone
  \/ LoginWithOtpStart
  \/ LoginWithOtpDone
  \/ LogoutUserStart
  \/ LogoutUserDone
  \/ RefreshTokenStart
  \/ RefreshTokenDone
  \/ LoginWithOtpEnhancedStart
  \/ LoginWithOtpEnhancedDone
  \/ LogoutUserEnhancedStart
  \/ LogoutUserEnhancedDone
  \/ Tick

SpecAuth == Init /\ [][NextAuth]_vars

\* The OTP login flow: request an OTP, verify it, log out, time passing
SpecOtp ==
  Init /\ [][\/ SendOtpStart
             \/ SendOtpDone
             \/ LoginWithOtpStart
             \/ LoginWithOtpDone
             \/ LogoutUserStart
             \/ LogoutUserDone
             \/ DoLogout
             \/ DoClearError
             \/ DoUpdateUserProfile
             \/ Tick]_vars

\* Logging in and logging out by hand, through either logout thunk
SpecLogout ==
  Init /\ [][\/ LoginWithOtpStart
             \/ LoginWithOtpDone
             \/ DoLoginSuccess
             \/ LogoutUserStart
             \/ LogoutUserDone
             \/ LogoutThunkStart
             \/ LogoutThunkDone
             \/ Tick]_vars

\* Persistence across launches: the store is rehydrated, the session changes
\* while the app is live (PersistGate holds the UI back until then), the
\* persistoid writes, time passes, the app is relaunched
AppLive == boot = "rehydrated" /\ ~IsPrimitive(auth)

SpecPersist ==
  Init /\ [][\/ Rehydrate
             \/ PersistFlush
             \/ Relaunch
             \/ \E e \in LegacyEnvelopes : LegacyInstall(e)
             \/ DayPasses
             \/ Tick
             \/ AppLive /\ DoLoginSuccess
             \/ AppLive /\ DoLoginFailure
             \/ AppLive /\ DoLogout]_vars

\* What reaches the encrypted store while the slices that are not persisted
\* change next to the session
SpecVolatile ==
  Init /\ [][\/ Rehydrate
             \/ PersistFlush
             \/ Relaunch
             \/ AppLive /\ DoLoginSuccess
             \/ AppLive /\ DoLogout
             \/ AppLive /\ SetCachedData("services")
             \/ AppLive /\ \E p \in ApiPaths : ApiQueryCached(p)
             \/ AppLive /\ \E b \in BOOLEAN : uiSetLoading(b)]_vars

\* The migration table applied to states of schema version 0
SpecMigrate ==
  Init /\ [][\/ \E s \in V0States : LoadV0(s)
             \/ MigrateNext
             \/ MigrationDone]_vars

\* The storage helpers and the TTL cache over time
SpecStorage ==
  Init /\ [][\/ \E k \in StorageItemKeys, ok \in BOOLEAN :
                  \E v \in {[prim |-> "text"], [test |-> "value"]} :
                    SetStorageItem(k, v, ok)
             \/ \E k \in StorageItemKeys, ok \in BOOLEAN : GetStorageItem(k, ok)
             \/ \E k \in StorageItemKeys, ok \in BOOLEAN :
                  RemoveStorageItem(k, ok)
             \/ \E k \in ApiCacheKeys, ttl \in TtlArgs, ok \in BOOLEAN :
                  \E d \in {[test |-> "cache"], [test |-> "other"]} :
                    SetApiCache(k, d, ttl, ok)
             \/ \E k \in ApiCacheKeys, readOk \in BOOLEAN, removeOk \in BOOLEAN :
                  GetApiCache(k, readOk, removeOk)
             \/ \E k \in StorageItemKeys : CorruptEntry(k)
             \/ Tick
             \/ DayPasses]_vars

\* storeOfflineRequest calls, one after the other or overlapping
SpecOffline ==
  Init /\ [][\/ \E c \in 1..MaxCalls, ok \in BOOLEAN : StoreOfflineRead(c, ok)
             \/ \E c \in 1..MaxCalls, ok \in BOOLEAN : StoreOfflineWrite(c, ok)]_vars

\* The retry delay for every attempt number and jitter, call after call
SpecDelay ==
  Init /\ [][\E attempt \in 0..MaxAttempt, jitter \in {0, 1, 500, 999} :
               CalculateRetryDelay(attempt, jitter)]_vars

\* fetchBaseQuery enforces the configured timeout, so every transport call
\* comes back; timers fire
FairSpecRetry ==
  /\ SpecRetry
  /\ WF_vars(OneRespond)
  /\ WF_vars(OneRetry)
  /\ WF_vars(LogoutTimerFires)
  /\ WF_vars(ResetTimerFires)

\* ---------------------------------------------------------------------------
\* Properties
\* ---------------------------------------------------------------------------
Running(r) == req[r].pc \in {"fetch", "backoff", "awaitLogout", "awaitShared"}

AllRetryable(r) == req[r].prefixRet /\ req[r].last \in retryableStatuses

\* C1: between the latch being set and its reset exactly one logout is
\* scheduled and dispatched, however many requests received a 401/403 in
\* between: never two pending or dispatched, and exactly one dispatched by
\* the time the reset is pending
C1_ExactlyOneLogout ==
  /\ timers.logout + epLogouts <= 1
  /\ epAuthFails > 0 => timers.logout + epLogouts = 1
  /\ timers.reset > 0 => epLogouts = 1

C1_Witness ==
  /\ epAuthFails >= 2
  /\ epLogouts = 1
  /\ \A r \in Reqs : req[r].pc = "done" /\ isAuthError(req[r].last)

\* C2: a request that received a 401/403 while a logout was scheduled and not
\* yet dispatched has not returned as long as that logout is not dispatched,
\* and no second logout is scheduled
C2_AwaitsInFlightLogout ==
  /\ \A r \in Reqs : req[r].sawPendingLogout => req[r].pc # "done"
  /\ timers.logout <= 1

\* C3: a request makes at most 4 transport calls, its attempt counter never
\* exceeds 3, and when every response was a retryable status it returns, after
\* exactly 4 calls, the error of the last response
C3_RetryBound ==
  \A r \in Reqs :
    /\ req[r].calls <= 4
    /\ req[r].attempt <= 3
    /\ (AllRetryable(r) /\ req[r].pc = "done") =>
         /\ req[r].calls = 4
         /\ req[r].result = [data |-> FALSE, error |-> req[r].last]

C3_Witness ==
  /\ req[1].pc = "done"
  /\ AllRetryable(1)
  /\ req[1].calls = 4
  /\ req[1].result.error = "500"

\* C4: after k <= 3 retryable failures in a row the request goes on to call
\* number k+1, and when that call succeeds the request returns success with no
\* error after exactly k+1 calls
C4_SuccessAfterRetries ==
  \A r \in Reqs :
    /\ (AllRetryable(r) /\ req[r].calls <= 3) => req[r].pc \in {"backoff", "fetch"}
    /\ (req[r].prefixRet /\ req[r].last = "200") =>
         /\ req[r].pc = "done"
         /\ req[r].result = [data |-> TRUE, error |-> Undef]
         /\ req[r].calls = req[r].attempt + 1
         /\ req[r].calls <= 4

C4_Witness ==
  /\ req[1].pc = "done"
  /\ req[1].prefixRet
  /\ req[1].last = "200"
  /\ req[1].calls = 4
  /\ req[1].result.data

\* C5: a response with a non-auth client error (400, 404) ends the request at
\* once with that error, whatever the online indicator says
C5_ClientErrorNotRetried ==
  \A r \in Reqs :
    req[r].last \in {"400", "404"} =>
      /\ req[r].pc = "done"
      /\ req[r].result = [data |-> FALSE, error |-> req[r].last]

\* C6: a 401/403 response is never retried: the request either awaits the
\* logout it triggered or has returned the auth error
C6_AuthErrorNotRetried ==
  \A r \in Reqs :
    isAuthError(req[r].last) =>
      /\ req[r].pc \in {"awaitLogout", "awaitShared", "done"}
      /\ req[r].result = [data |-> FALSE, error |-> req[r].last]

\* C7: a request gives up after a network-level failure (FETCH_ERROR,
\* TIMEOUT_ERROR or an exception) only when its retry budget is used up
C7_NetworkFailureRetried ==
  \A r \in Reqs :
    (req[r].last \in {"FETCH_ERROR", "TIMEOUT_ERROR", "THROW"} /\ req[r].pc = "done")
      => req[r].attempt = maxRetries

\* C8: a call never rejects, a returned result carries exactly one of data and
\* error, and every call in progress eventually returns
C8_AlwaysResolves ==
  /\ [](\A r \in Reqs :
          /\ req[r].pc # "rejected"
          /\ req[r].pc = "done" =>
               (req[r].result.data <=> req[r].result.error = Undef))
  /\ \A r \in Reqs : Running(r) ~> (req[r].pc = "done")

C8_Witness ==
  /\ req[1].pc = "done"
  /\ req[1].last = "THROW"
  /\ req[1].result = [data |-> FALSE, error |-> "FETCH_ERROR"]

\* C9: isLoggedIn is true exactly when a token is present
C9_LoggedInIffToken == auth.isLoggedIn <=> (auth.token # Undef)

LoginTypes == {"auth/loginSuccess", "auth/loginWithOtp/fulfilled",
               "auth/loginWithOtpEnhanced/fulfilled"}
LogoutTypes == {"auth/logout", "auth/logout/fulfilled",
                "auth/logoutUserEnhanced/fulfilled"}

\* C10: right after a successful login transition token, user and
\* lastLoginTime are all defined; right after a logout transition token,
\* refreshToken, user and lastLoginTime are all undefined and isLoggedIn is
\* false
C10_SessionAtomicity ==
  /\ lastAction \in LoginTypes =>
       /\ auth.token # Undef
       /\ auth.user # None
       /\ auth.lastLoginTime # None
  /\ lastAction \in LogoutTypes =>
       /\ auth.token = Undef
       /\ auth.refreshToken = Undef
       /\ auth.user = None
       /\ auth.lastLoginTime = None
       /\ ~auth.isLoggedIn

C10_Witness ==
  /\ lastAction = "auth/loginWithOtp/fulfilled"
  /\ auth.isLoggedIn
  /\ auth.lastLoginTime = Some(2)

\* ---------------------------------------------------------------------------
\* C11: on rehydration a persisted auth slice whose lastLoginTime lies more
\* than 24 hours back reaches the reconciler in the logged-out shape
\* (isLoggedIn false; token, refreshToken, user and lastLoginTime undefined)
\* and is never in memory as logged in; a younger one reaches the reconciler
\* unchanged.
\* ---------------------------------------------------------------------------
StoredAuth(h) == Parse(Parse(h.raw[1]).auth)

ReadAuth(h) == h.inbound # None /\ "auth" \in DOMAIN h.inbound[1]

OlderThanMaxAge(o, t) ==
  /\ "lastLoginTime" \in DOMAIN o
  /\ o.lastLoginTime # None
  /\ t - o.lastLoginTime[1] > 24 * 60 * 60 * 1000

C11_ExpiredSessionDropped ==
  (lastRehydrate # None /\ ReadAuth(lastRehydrate[1])) =>
    LET h == lastRehydrate[1]
        fed == h.inbound[1].auth
    IN IF OlderThanMaxAge(StoredAuth(h), h.at)
         THEN /\ fed.isLoggedIn = FALSE
              /\ fed.token = Undef
              /\ fed.refreshToken = Undef
              /\ fed.user = None
              /\ fed.lastLoginTime = None
              /\ h.state.auth.isLoggedIn = FALSE
              /\ h.state.auth.token = Undef
         ELSE fed = StoredAuth(h)

C11_Witness ==
  /\ lastRehydrate # None
  /\ ReadAuth(lastRehydrate[1])
  /\ OlderThanMaxAge(StoredAuth(lastRehydrate[1]), lastRehydrate[1].at)
  /\ StoredAuth(lastRehydrate[1]).isLoggedIn
  /\ lastRehydrate[1].accepted
  /\ boot = "rehydrated"
  /\ ~auth.isLoggedIn

\* ---------------------------------------------------------------------------
\* C12: when the inbound persisted state is not an object, or its auth is not
\* an object, or its auth.user lacks a non-empty id or a non-empty phone, the
\* reconciler returns the in-memory state with nothing of the inbound state
\* merged; otherwise every top-level key of the inbound state replaces the
\* in-memory one.
\* ---------------------------------------------------------------------------
InvalidInbound(in) ==
  \/ ~TypeofObject(in)
  \/ IsPrimitive(in)
  \/ /\ "auth" \in DOMAIN in
     /\ \/ ~TypeofObject(in.auth)
        \/ /\ HasUser(in.auth)
           /\ ~(Truthy(in.auth.user[1], "id") /\ Truthy(in.auth.user[1], "phone"))

Slices(st) == DOMAIN st \ {"_persist"}

C12_InvalidEnvelopeDiscarded ==
  (lastRehydrate # None /\ lastRehydrate[1].inbound # None) =>
    LET h == lastRehydrate[1]
        in == h.inbound[1]
    IN IF InvalidInbound(in)
         THEN /\ Slices(h.state) = Slices(h.original)
              /\ \A k \in Slices(h.state) : h.state[k] = h.original[k]
         ELSE /\ Slices(h.state) = Slices(h.original) \cup Slices(in)
              /\ \A k \in Slices(in) : h.state[k] = in[k]
              /\ \A k \in Slices(h.original) \ Slices(in) :
                   h.state[k] = h.original[k]

\* ---------------------------------------------------------------------------
\* C13: the migration functions applied in increasing key order to a state of
\* version 0 give, after step k, version k + 1, and at the end version
\* max(keys) + 1 = getCurrentVersion() = 2 with a top-level auth.phone moved
\* under auth.user.phone and no top-level auth.phone left.
\* ---------------------------------------------------------------------------
HadTopLevelPhone(s) == "auth" \in DOMAIN s /\ "phone" \in DOMAIN s.auth

C13_MigrationReachesLatest ==
  migration # None =>
    LET m == migration[1] IN
    /\ m.state._persist.version = m.k
    /\ getCurrentVersion = 2
    /\ m.k <= getCurrentVersion
    /\ (m.k = getCurrentVersion /\ HadTopLevelPhone(m.input)) =>
         /\ "phone" \notin DOMAIN m.state.auth
         /\ HasUser(m.state.auth)
         /\ Truthy(m.state.auth.user[1], "phone")

\* ---------------------------------------------------------------------------
\* C14: every persisted envelope accepted into memory on rehydration is at the
\* latest schema version, max(migration keys) + 1: the configured version
\* equals getCurrentVersion(), and an envelope stored with a lower version
\* has been migrated before it is reconciled.
\* ---------------------------------------------------------------------------
C14_AcceptedAtLatestVersion ==
  (lastRehydrate # None /\ lastRehydrate[1].accepted) =>
    LET h == lastRehydrate[1] IN
    /\ persistVersion = getCurrentVersion
    /\ h.state._persist.version = getCurrentVersion
    /\ "_persist" \in DOMAIN h.inbound[1] =>
         h.inbound[1]._persist.version = getCurrentVersion

\* ---------------------------------------------------------------------------
\* C19: the envelope written to the encrypted store holds the auth slice and
\* the persistence metadata and nothing else; a change of the ui slice, the
\* cache slice or an API slice neither adds to nor changes what is stored
\* (the cache slice is on no deny-list: it is left out by the allow-list).
\* ---------------------------------------------------------------------------
StoredEnvelope(d) == Parse(d[PersistKey][1])

UpToDate(d, a) ==
  /\ d[PersistKey] # None
  /\ DOMAIN StoredEnvelope(d) = {"auth", "_persist"}
  /\ Parse(StoredEnvelope(d).auth) = Parse(Stringify(a))

C19_OnlyAuthPersisted ==
  [][/\ disk'[PersistKey] # disk[PersistKey] => UpToDate(disk', auth')
     /\ (auth' = auth /\ boot = "rehydrated" /\ boot' = "rehydrated"
         /\ UpToDate(disk, auth)) => disk'[PersistKey] = disk[PersistKey]]_vars

C19_Witness ==
  /\ boot = "rehydrated"
  /\ auth.isLoggedIn
  /\ UpToDate(disk, auth)
  /\ uiLoading
  /\ cache # cacheInitialState
  /\ apiSlices # apiInitialState

\* ---------------------------------------------------------------------------
\* C15: getApiCache(key) after setApiCache(key, data, ttl), at a time t with
\* t - timestamp <= ttl, returns data and leaves the entry in the store; with
\* t - timestamp > ttl it returns null and removes the key.  Nothing but that
\* read evicts the entry.  (Stated for calls during which the encrypted store
\* does not fail.)
\* ---------------------------------------------------------------------------
WroteEntry(c) ==
  /\ c # None
  /\ c[1].op = "setApiCache"
  /\ ~c[1].fault

ReadsEntry(c, key) ==
  /\ c # None
  /\ c[1].op = "getApiCache"
  /\ c[1].key = key
  /\ ~c[1].fault

GivenTtl(c) == IF c[1].args.ttl = None THEN 5 * 60 * 1000 ELSE c[1].args.ttl[1]

C15_TtlRoundTrip ==
  [][/\ (WroteEntry(call) /\ call' # call /\ ReadsEntry(call', call[1].key)) =>
          IF now - call[1].at <= GivenTtl(call)
            THEN /\ call'[1].value = Some(call[1].args.data)
                 /\ disk'[call[1].key] = disk[call[1].key]
            ELSE /\ call'[1].value = None
                 /\ disk'[call[1].key] = None
     /\ (WroteEntry(call) /\ call' = call) =>
          disk'[call[1].key] = disk[call[1].key]]_vars

\* ---------------------------------------------------------------------------
\* C16: getStorageItem resolves to null, and never rejects, when the store's
\* read fails or the stored text is not valid JSON; setStorageItem and
\* removeStorageItem reject whenever the store's write or remove fails.
\* ---------------------------------------------------------------------------
C16_ReadDegradesWriteRejects ==
  call # None =>
    LET c == call[1] IN
    /\ c.op = "getStorageItem" =>
         /\ c.outcome = "resolved"
         /\ (c.fault \/ (c.seen # None /\ "text" \in DOMAIN c.seen[1])) =>
              c.value = None
    /\ (c.op \in {"setStorageItem", "removeStorageItem"} /\ c.fault) =>
         c.outcome = "rejected"

C16_Witness ==
  /\ call # None
  /\ call[1].op = "setStorageItem"
  /\ call[1].fault
  /\ call[1].outcome = "rejected"
  /\ call[1].seen # None
  /\ "text" \in DOMAIN call[1].seen[1]

\* ---------------------------------------------------------------------------
\* C17: all transport attempts of one request, its retries included, carry
\* the access token that was in the auth state when the request started; a
\* token refreshed or cleared while the request is in flight is used only by
\* requests started afterwards.
\* ---------------------------------------------------------------------------
C17_AttemptsCarryStartToken == \A r \in Reqs : req[r].sameToken

\* ---------------------------------------------------------------------------
\* C18: a request not flagged background dispatches exactly one
\* setLoading(true) before its first transport attempt and exactly one
\* setLoading(false) before its result is returned, whatever the outcome; a
\* request flagged background dispatches neither.
\* ---------------------------------------------------------------------------
C18_OneStartOneStop ==
  \A r \in Reqs :
    LET q == req[r] IN
      /\ q.pc \in {"idle", "done"} \/ Running(r)
      /\ q.background => q.starts = 0 /\ q.stops = 0
      /\ (~q.background /\ q.calls >= 1) => q.starts = 1
      /\ (~q.background /\ Running(r)) => q.stops = 0
      /\ (~q.background /\ q.pc = "done") => q.stops = 1

C18_Witness ==
  \E r \in Reqs :
    /\ req[r].pc = "done"
    /\ ~req[r].background
    /\ req[r].calls = maxRetries + 1
    /\ req[r].result.error = "FETCH_ERROR"
    /\ req[r].starts = 1
    /\ req[r].stops = 1

\* ---------------------------------------------------------------------------
\* C20: starting from a logged-out session, verifying OTP "123456" for phone
\* p ends with isLoggedIn true, user.phone = p and a non-empty token;
\* verifying with any other OTP resolves to an error result and leaves the
\* session logged out (isLoggedIn false, token undefined) with the error
\* recorded.
\* ---------------------------------------------------------------------------
LoggedOut(s) == ~s.isLoggedIn /\ s.token = Undef

VerifyCompletes ==
  /\ thunk["loginWithOtp"].st = "pending"
  /\ thunk'["loginWithOtp"].st = "idle"
  /\ LoggedOut(auth)

LoggedInAs(s, p) ==
  /\ s.isLoggedIn
  /\ s.user # None
  /\ s.user[1].phone = p
  /\ s.token # Undef
  /\ s.token # ""

RejectedLoggedOut ==
  /\ lastAction' = "auth/loginWithOtp/rejected"
  /\ LoggedOut(auth')
  /\ auth'.error # Undef

C20_OtpScenario ==
  [][VerifyCompletes =>
       IF thunk["loginWithOtp"].otpOk
         THEN LoggedInAs(auth', thunk["loginWithOtp"].phone)
         ELSE RejectedLoggedOut]_vars

\* C20 as amended: with the right OTP the login is rejected, and the session
\* stays logged out with the error recorded, when saving the token or the
\* user to the store fails
C20_OtpScenarioOrStorageFailure ==
  [][VerifyCompletes =>
       IF thunk["loginWithOtp"].otpOk
         THEN \/ /\ lastAction' = "auth/loginWithOtp/fulfilled"
                 /\ LoggedInAs(auth', thunk["loginWithOtp"].phone)
              \/ /\ RejectedLoggedOut
                 /\ auth'.error = StorageErrMsg
         ELSE /\ RejectedLoggedOut
              /\ auth'.error = InvalidOtpMsg]_vars

C20_Witness ==
  /\ lastAction = "auth/loginWithOtp/rejected"
  /\ auth.error = StorageErrMsg
  /\ LoggedOut(auth)
  /\ thunk["loginWithOtp"].st = "idle"

\* ---------------------------------------------------------------------------
\* C21: a user-initiated logout started from a logged-in session always ends
\* with the session cleared (isLoggedIn false, token and user undefined,
\* isLoading false), also when removing the auth token or the user data from
\* the encrypted store fails.
\* ---------------------------------------------------------------------------
UserLogoutCompletes ==
  /\ auth.isLoggedIn
  /\ \E t \in {"logoutUser", "logoutThunk"} :
       thunk[t].st = "pending" /\ thunk'[t].st = "idle"

C21_UserLogoutClearsSession ==
  [][UserLogoutCompletes =>
       /\ ~auth'.isLoggedIn
       /\ auth'.token = Undef
       /\ auth'.user = None
       /\ ~auth'.isLoading]_vars

\* ---------------------------------------------------------------------------
\* C22: for attempts a < b the base delay baseDelay * 2^a is strictly less
\* than baseDelay * 2^b; the delay returned for attempt 1 is strictly greater
\* than the delay returned for attempt 0, whatever the two jitter values; and
\* every returned delay is at most 30000 ms.
\* ---------------------------------------------------------------------------
C22_BackoffGrowsAndIsCapped ==
  call # None =>
    LET c == call[1] IN
    /\ c.value <= 30000
    /\ c.prev # None =>
         LET p == c.prev[1] IN
         /\ p.attempt < c.attempt => p.exponentialDelay < c.exponentialDelay
         /\ (p.attempt = 0 /\ c.attempt = 1) => p.value < c.value

C22_Witness ==
  /\ call # None
  /\ call[1].attempt = MaxAttempt
  /\ call[1].value = 30000
  /\ call[1].prev # None
  /\ call[1].prev[1].attempt = 0
  /\ call[1].prev[1].value = baseDelay + 999

\* ---------------------------------------------------------------------------
\* C23: the logout latch follows Idle -> LoggingOut -> Cooldown -> Idle: once
\* a logout is triggered the logout action is dispatched before the latch is
\* reset, the latch always eventually returns to idle, and the first auth
\* failure observed after the reset triggers exactly one new logout dispatch.
\* ---------------------------------------------------------------------------
LatchPhase ==
  IF ~logoutManager.isLoggingOut THEN "Idle"
  ELSE IF logoutManager.logoutPromise = "pending" THEN "LoggingOut"
  ELSE "Cooldown"

C23_LatchCycle ==
  /\ [][/\ LatchPhase' # LatchPhase =>
              <<LatchPhase, LatchPhase'>> \in
                {<<"Idle", "LoggingOut">>, <<"LoggingOut", "Cooldown">>,
                 <<"Cooldown", "Idle">>}
        /\ (LatchPhase = "LoggingOut" /\ LatchPhase' = "Cooldown") =>
              (epLogouts = 0 /\ epLogouts' = 1 /\ lastAction' = "auth/logout")
        /\ (LatchPhase = "Cooldown" /\ LatchPhase' = "Idle") => epLogouts = 1
        /\ (LatchPhase = "Idle" /\ epAuthFails' > epAuthFails) =>
              (LatchPhase' = "LoggingOut" /\ timers'.logout = 1
               /\ epLogouts' = 0)]_vars
  /\ (LatchPhase # "Idle") ~> (LatchPhase = "Idle")

\* a second cycle: a logout was dispatched earlier, the latch was reset, and
\* a new auth failure has scheduled the next logout
C23_Witness ==
  /\ LatchPhase = "LoggingOut"
  /\ lastAction = "auth/logout"
  /\ timers = [logout |-> 1, reset |-> 0]
  /\ epLogouts = 0
  /\ req[1].pc = "awaitLogout"

\* ---------------------------------------------------------------------------
\* C24: in every reachable auth state, token undefined implies that user,
\* refreshToken and lastLoginTime are all undefined: every transition that
\* clears the token clears the other three session fields in the same step.
\* ---------------------------------------------------------------------------
C24_NoTokenNoSession ==
  auth.token = Undef =>
    /\ auth.user = None
    /\ auth.refreshToken = Undef
    /\ auth.lastLoginTime = None

\* ---------------------------------------------------------------------------
\* C25: setApiCache(key, data, ttl) stores a wrapper whose ttl equals the
\* caller's ttl whenever a ttl is supplied (ttl = 0 included) and equals 5
\* minutes only when ttl is omitted; so an entry stored with ttl = 0 is a
\* miss, and is evicted, on any getApiCache at a later timestamp.
\* ---------------------------------------------------------------------------
C25_StoredTtlIsCallersTtl ==
  [][/\ (WroteEntry(call') /\ call' # call) =>
          /\ disk'[call'[1].key] # None
          /\ Parse(disk'[call'[1].key][1]).ttl = GivenTtl(call')
     /\ (/\ WroteEntry(call)
         /\ call[1].args.ttl = Some(0)
         /\ call' # call
         /\ ReadsEntry(call', call[1].key)
         /\ now > call[1].at) =>
          /\ call'[1].value = None
          /\ disk'[call[1].key] = None]_vars

\* ---------------------------------------------------------------------------
\* C26: each migration function is pure: it returns a new state and leaves
\* the state object passed to it, its nested auth object included,
\* unmodified, so applying the same migration twice to the same input value
\* gives the same output.
\* ---------------------------------------------------------------------------
MigrationApplied ==
  /\ migration # None
  /\ migration' # None
  /\ migration'[1].k = migration[1].k + 1

C26_MigrationsArePure ==
  [][MigrationApplied =>
       /\ migration'[1].arg = migration[1].state
       /\ migrations(migration[1].k, migration'[1].arg) = migration'[1].state]_vars

\* ---------------------------------------------------------------------------
\* C27: whenever at least one request not flagged background is in flight
\* (started and not yet returned), the global ui.isLoading flag is true, for
\* every interleaving of concurrently running requests.
\* ---------------------------------------------------------------------------
C27_LoadingWhileInFlight ==
  (\E r \in Reqs : Running(r) /\ ~req[r].background) => uiLoading

\* ---------------------------------------------------------------------------
\* C28: a logout scheduled because of an auth failure never clears a session
\* established by a successful login after that failure was observed: if a
\* login completes during the coalescing delay between the latch being set
\* and the logout being dispatched, the new session's token and user survive.
\* ---------------------------------------------------------------------------
LogoutDispatched == timers'.logout < timers.logout

\* no session when the failure that scheduled the logout was observed, and
\* one now
LoggedInSinceAuthError ==
  /\ auth.isLoggedIn
  /\ auth.token # Undef
  /\ \E r \in Reqs : req[r].pc = "awaitLogout" /\ req[r].tokenAtAuthError = Undef

C28_NewSessionSurvivesLogout ==
  [][(LogoutDispatched /\ LoggedInSinceAuthError) =>
       /\ auth'.isLoggedIn
       /\ auth'.token = auth.token
       /\ auth'.user = auth.user]_vars

\* ---------------------------------------------------------------------------
\* C29: every 401/403 response received through baseQuery while the session
\* is logged in is eventually followed by a logout dispatch that happens at
\* or after that response, also when the response arrives during the latch's
\* cooldown after an earlier logout was dispatched and a new login was made.
\* Stated on the step that receives the response: it leaves a logout
\* scheduled, which the 100 ms timer then dispatches.
\* ---------------------------------------------------------------------------
AuthErrorReceived ==
  \E r \in Reqs :
    /\ req[r].pc = "fetch"
    /\ req'[r].pc # "fetch"
    /\ isAuthError(req'[r].last)

C29_AuthErrorLeadsToLogout ==
  [][(AuthErrorReceived /\ auth.isLoggedIn) => timers'.logout > 0]_vars

\* ---------------------------------------------------------------------------
\* C30: after any set of storeOfflineRequest calls that have all completed
\* without a store failure, calls whose executions overlap included, the
\* stored offline queue contains every request passed to those calls exactly
\* once, and requests from non-overlapping calls appear in call order.
\* ---------------------------------------------------------------------------
Completed == {c \in 1..MaxCalls : offline.calls[c].pc = "done"}

AllCompletedWithoutFailure ==
  /\ Completed # {}
  /\ \A c \in 1..MaxCalls :
       offline.calls[c].pc \in {"idle", "done"} /\ ~offline.calls[c].fault

StoredQueue ==
  IF disk[OfflineQueueKey] = None THEN <<>>
  ELSE Parse(disk[OfflineQueueKey][1]).array

Occurrences(queue, c) == Cardinality({i \in DOMAIN queue : queue[i] = c})

Alone == {c \in Completed : ~offline.calls[c].overlapped}

\* the calls of set S, as far as they are queued, are queued in call order
InCallOrder(S) ==
  \A i, j \in DOMAIN offline.begun :
    (i < j /\ offline.begun[i] \in S /\ offline.begun[j] \in S) =>
      \A m, n \in DOMAIN StoredQueue :
        (StoredQueue[m] = offline.begun[i] /\ StoredQueue[n] = offline.begun[j])
          => m < n

C30_EveryRequestQueuedOnce ==
  AllCompletedWithoutFailure =>
    /\ \A c \in Completed : Occurrences(StoredQueue, c) = 1
    /\ InCallOrder(Alone)

\* C30 as amended: the requests of calls that overlapped no other call are
\* queued exactly once and in call order; the request of a call that
\* overlapped another is queued at most once (the last write wins)
C30_RequestsOfCallsAloneQueuedOnce ==
  AllCompletedWithoutFailure =>
    /\ \A c \in Alone : Occurrences(StoredQueue, c) = 1
    /\ \A c \in Completed : Occurrences(StoredQueue, c) <= 1
    /\ InCallOrder(Alone)

C30_Witness ==
  /\ AllCompletedWithoutFailure
  /\ Completed = 1..MaxCalls
  /\ Cardinality(Alone) = 1
  /\ Len(StoredQueue) = 2

====
